---- MODULE Spec2Model ----
(***************************************************************************)
(* Model of src/Lab2/Lab2.py: the image inventory (scan_folder), the       *)
(* per-file extraction (ImageInfoExtractor), the batch loop                *)
(* (scan_and_process_folder), the session state kept by main and the       *)
(* counters and row statuses computed by display_results.                  *)
(*                                                                         *)
(* Python values are modelled as tagged records (PyNone, PyInt, PyStr);    *)
(* a Python str is a sequence of one-character strings, so that lower(),   *)
(* capitalize(), splitext() and number formatting are computed, not        *)
(* assumed.                                                                *)
(***************************************************************************)
EXTENDS Integers, Sequences, FiniteSets, TLC

VARIABLES
    \* ---- session and batch loop (main, scan_and_process_folder) ----
    disk,             \* what the decoder / filesystem answer for every image path
    folder_path,      \* st.session_state.folder_path
    processed_files,  \* st.session_state.processed_files
    image_files,      \* local of scan_and_process_folder
    processed_data,   \* local of scan_and_process_folder
    pc,               \* "idle" (between script runs) or "loop" (inside the for loop)
    view,             \* what the last run of main rendered
    \* ---- scan_folder applied to an arbitrary directory tree ----
    tree, scan_out,
    \* ---- get_dpi applied to an arbitrary 'dpi' metadata entry ----
    dpi_in, dpi_out,
    \* ---- calculate_jpeg_compression_ratio applied to arbitrary sizes ----
    jpeg_in, jpeg_out,
    \* ---- get_compression applied to an arbitrary format / tag ----
    comp_in, comp_out

vars == <<disk, folder_path, processed_files, image_files, processed_data, pc, view,
          tree, scan_out, dpi_in, dpi_out, jpeg_in, jpeg_out, comp_in, comp_out>>

pipeVars == <<disk, folder_path, processed_files, image_files, processed_data, pc, view>>
scanVars == <<tree, scan_out>>
dpiVars  == <<dpi_in, dpi_out>>
jpegVars == <<jpeg_in, jpeg_out>>
compVars == <<comp_in, comp_out>>

----------------------------------------------------------------------------
(* Bounds of the model *)

\* Stands for the literal 100000 of scan_folder (Lab2.py:169 and :172): the
\* walk is explored with a cap small enough for trees to exceed it.
ScanCap == 3
\* Longest directory tree (number of directories os.walk yields).
MaxDirs == 3
\* Byte counts are tried in windows of MaxSize + 1 consecutive values.
MaxSize == 6
\* Longest 'dpi' metadata entry (number of components).
MaxArity == 3

----------------------------------------------------------------------------
(* Python values *)

PyNone   == [t |-> "None", s |-> <<>>, n |-> 0]
PyInt(k) == [t |-> "int",  s |-> <<>>, n |-> k]
PyStr(x) == [t |-> "str",  s |-> x,    n |-> 0]

\* bool(v) as Python's `not v` / `if v` sees it
Truthy(v) ==
    CASE v.t = "None" -> FALSE
      [] v.t = "int"  -> v.n # 0
      [] v.t = "str"  -> v.s # <<>>

UpperChars == <<"A","B","C","D","E","F","G","H","I","J","K","L","M",
                "N","O","P","Q","R","S","T","U","V","W","X","Y","Z">>
LowerChars == <<"a","b","c","d","e","f","g","h","i","j","k","l","m",
                "n","o","p","q","r","s","t","u","v","w","x","y","z">>

LowerCh(c) ==
    IF \E i \in 1..26 : UpperChars[i] = c
    THEN LowerChars[CHOOSE i \in 1..26 : UpperChars[i] = c]
    ELSE c

UpperCh(c) ==
    IF \E i \in 1..26 : LowerChars[i] = c
    THEN UpperChars[CHOOSE i \in 1..26 : LowerChars[i] = c]
    ELSE c

\* str.lower()
Lower(s) == [i \in 1..Len(s) |-> LowerCh(s[i])]

\* str.capitalize(): first character upper-cased, the rest lower-cased
Capitalize(s) == [i \in 1..Len(s) |-> IF i = 1 THEN UpperCh(s[i]) ELSE LowerCh(s[i])]

DigitChars == <<"0","1","2","3","4","5","6","7","8","9">>

RECURSIVE NatDigits(_)
NatDigits(k) ==
    IF k < 10 THEN <<DigitChars[k + 1]>>
    ELSE NatDigits(k \div 10) \o <<DigitChars[(k % 10) + 1]>>

\* str(k) / f"{k}" of an int
IntStr(k) == IF k < 0 THEN <<"-">> \o NatDigits(-k) ELSE NatDigits(k)

Abs(k) == IF k < 0 THEN -k ELSE k
Min(a, b) == IF a <= b THEN a ELSE b

\* " × " as the f-strings of get_image_info and get_dpi write it
Times == <<" ", "×", " ">>

----------------------------------------------------------------------------
(* scan_folder *)

supported_formats ==
    { <<".","j","p","g">>, <<".","j","p","e","g">>, <<".","g","i","f">>,
      <<".","t","i","f">>, <<".","t","i","f","f">>, <<".","b","m","p">>,
      <<".","p","n","g">>, <<".","p","c","x">> }

\* os.path.splitext(name)[1] for a name without separators: the text from the
\* last dot on, unless only dots precede that dot.
SplitExt(name) ==
    LET dots == {i \in 1..Len(name) : name[i] = "."} IN
    IF dots = {} THEN <<>>
    ELSE LET d == CHOOSE i \in dots : \A j \in dots : j <= i IN
         IF \E k \in 1..(d - 1) : name[k] # "."
         THEN SubSeq(name, d, Len(name))
         ELSE <<>>

\* the condition of line 166
IsImageName(file) == Lower(SplitExt(file)) \in supported_formats

\* os.path.join(root, file): root is the position of the directory in the walk
JoinPath(root, file) == [root |-> root, file |-> file]

\* os.path.basename(path)
Basename(path) == path.file

\* the inner for loop, lines 165-167: the matching files of one directory, in order
RECURSIVE AppendMatches(_, _, _, _)
AppendMatches(acc, root, files, k) ==
    IF k > Len(files) THEN acc
    ELSE AppendMatches(
            IF IsImageName(files[k]) THEN Append(acc, JoinPath(root, files[k])) ELSE acc,
            root, files, k + 1)

\* the outer for loop, lines 164-170: directory k of the walk onwards.
\* Yields the collected list and the number of directories visited.
RECURSIVE WalkFrom(_, _, _)
WalkFrom(walk, k, acc) ==
    IF k > Len(walk) THEN [files |-> acc, visited |-> Len(walk)]
    ELSE LET acc2 == AppendMatches(acc, walk[k].root, walk[k].files, 1) IN
         IF Len(acc2) >= ScanCap
         THEN [files |-> acc2, visited |-> k]
         ELSE WalkFrom(walk, k + 1, acc2)

\* Truncate with the slice forgotten
NoTruncate(files) == files

\* the slice image_files[:100000] of line 172
Truncate(files) == SubSeq(files, 1, Min(Len(files), ScanCap))

\* scan_folder(folder_path), the walk being what os.walk yields for the folder
ScanWalk(walk) ==
    LET w == WalkFrom(walk, 1, <<>>) IN
    [files |-> Truncate(w.files), visited |-> w.visited]

scan_folder(walk) == ScanWalk(walk).files

----------------------------------------------------------------------------
(* Directory trees the scanner is tried on *)

nA == <<"a",".","j","p","g">>
nB == <<"b",".","J","P","G">>
nC == <<"c",".","t","x","t">>
nD == <<".","p","n","g">>
nE == <<"e",".","t","a","r",".","P","n","g">>
nF == <<"f">>
nG == <<"g",".","j","p","g","x">>

DirSamples ==
    { <<>>, <<nA>>, <<nC, nB>>, <<nD, nF, nG>>, <<nA, nE, nC, nB>>, <<nE, nA>> }

RECURSIVE SeqsUpTo(_, _)
SeqsUpTo(S, k) ==
    IF k = 0 THEN {<<>>}
    ELSE LET shorter == SeqsUpTo(S, k - 1) IN
         shorter \cup {Append(q, x) : q \in {r \in shorter : Len(r) = k - 1}, x \in S}

\* a walk: directory i has root i and one of the sample listings
Walks ==
    { [i \in 1..Len(q) |-> [root |-> i, files |-> q[i]]] : q \in SeqsUpTo(DirSamples, MaxDirs) }

NotRun == [files |-> <<>>, visited |-> -1]

----------------------------------------------------------------------------
(* Calls that may raise: a result is a returned value or a raised exception *)

Ret(v)     == [raised |-> FALSE, msg |-> <<>>, val |-> v]
Raise(msg) == [raised |-> TRUE,  msg |-> msg,  val |-> PyNone]

\* string literals of the source
sError   == <<"E","r","r","o","r">>
sErrorColon == <<"E","r","r","o","r",":"," ">>
sUnknown == <<"U","n","k","n","o","w","n">>
sNone    == <<"N","o","n","e">>
sNA      == <<"N","/","A">>
sZeroPct == <<"0","%">>
sLZW     == <<"L","Z","W">>
sJPEG    == <<"J","P","E","G">>
sPNG     == <<"P","N","G">>
sBMP     == <<"B","M","P">>
sTIFF    == <<"T","I","F","F">>
sGIF     == <<"G","I","F">>
sPCX     == <<"P","C","X">>
sRGB     == <<"R","G","B">>
sRGBA    == <<"R","G","B","A">>
sCMYK    == <<"C","M","Y","K">>
sYCbCr   == <<"Y","C","b","C","r">>
sLAB     == <<"L","A","B">>
sHSV     == <<"H","S","V">>
s72x72   == <<"7","2">> \o Times \o <<"7","2">>

\* str(v) / f"{v}"
Str(v) ==
    CASE v.t = "None" -> sNone
      [] v.t = "int"  -> IntStr(v.n)
      [] v.t = "str"  -> v.s

----------------------------------------------------------------------------
(* ImageInfoExtractor.get_color_depth *)

mode_bits ==
    { <<<<"1">>, 1>>, <<<<"L">>, 8>>, <<<<"P">>, 8>>, <<sRGB, 24>>, <<sRGBA, 32>>,
      <<sCMYK, 32>>, <<sYCbCr, 24>>, <<sLAB, 24>>, <<sHSV, 24>>, <<<<"I">>, 32>>,
      <<<<"F">>, 32>> }

get_color_depth(img) ==
    IF \E e \in mode_bits : e[1] = img.mode
    THEN PyInt((CHOOSE e \in mode_bits : e[1] = img.mode)[2])
    ELSE PyStr(sUnknown \o <<" ","(">> \o img.mode \o <<")">>)

----------------------------------------------------------------------------
(* ImageInfoExtractor.get_dpi *)

\* img.info.get('dpi', (72, 72)): an entry is absent, a tuple of items, or a
\* value that is no tuple (a list of items, a scalar)
DpiDefault == [present |-> TRUE, tuple |-> TRUE, items |-> <<PyInt(72), PyInt(72)>>]

get_dpi(img) ==
    LET dpi == IF img.dpi.present THEN img.dpi ELSE DpiDefault IN
    IF dpi.tuple /\ Len(dpi.items) = 2
    THEN PyStr(Str(dpi.items[1]) \o Times \o Str(dpi.items[2]))
    ELSE PyStr(s72x72)

----------------------------------------------------------------------------
(* ImageInfoExtractor.calculate_jpeg_compression_ratio *)

\* The integer nearest to num/den (num >= 0, den > 0); on an exact tie the
\* neighbour `up` selects.  Formatting a binary double to a fixed number of
\* decimals yields the nearest decimal; when the exact quotient lies midway,
\* the rounding error of the float division decides, which `up` stands for.
RoundNearest(num, den, up) ==
    LET q == num \div den
        r == num % den
    IN  IF 2 * r > den THEN q + 1
        ELSE IF 2 * r < den THEN q
        ELSE IF up THEN q + 1 ELSE q

\* f"{x:.1f}" for x = sign * tenths / 10
Format1f(neg, tenths) ==
    (IF neg THEN <<"-">> ELSE <<>>)
      \o NatDigits(tenths \div 10) \o <<".">> \o <<DigitChars[(tenths % 10) + 1]>>

\* RatioOfSizes with the saving taken relative to the stored file
RatioOfSizesByActual(uncompressed_size, actual_file_size, up) ==
    IF uncompressed_size > 0
    THEN LET diff == uncompressed_size - actual_file_size IN
         PyStr(Format1f(diff < 0, RoundNearest(Abs(diff) * 1000, actual_file_size, up))
               \o <<"%">>)
    ELSE PyStr(sNA)

\* lines 116-120, given the size of the BMP written to the buffer
RatioOfSizes(uncompressed_size, actual_file_size, up) ==
    IF uncompressed_size > 0
    THEN LET diff == uncompressed_size - actual_file_size IN
         PyStr(Format1f(diff < 0, RoundNearest(Abs(diff) * 1000, uncompressed_size, up))
               \o <<"%">>)
    ELSE PyStr(sNA)

\* calculate_jpeg_compression_ratio without its try/except
CalculateUncaught(img, actual_file_size) ==
    IF img.bmp.raises
    THEN Raise(img.bmp.msg)
    ELSE Ret(RatioOfSizes(img.bmp.size, actual_file_size, img.tie_up))

\* img.bmp is what convert('RGB') followed by save(buffer, format='BMP') does for
\* this image: it raises, or buffer.tell() is img.bmp.size afterwards
calculate_jpeg_compression_ratio(img, actual_file_size) ==
    IF img.bmp.raises
    THEN Ret(PyStr(sErrorColon \o img.bmp.msg))
    ELSE Ret(RatioOfSizes(img.bmp.size, actual_file_size, img.tie_up))

----------------------------------------------------------------------------
(* ImageInfoExtractor.get_compression *)

compression_map ==
    { <<<<"j","p","e","g">>, sJPEG>>,
      <<<<"d","e","f","l","a","t","e">>, <<"D","E","F","L","A","T","E">>>>,
      <<<<"p","a","c","k","b","i","t","s">>, <<"P","a","c","k","B","i","t","s">>>>,
      <<<<"l","z","w">>, sLZW>>,
      <<<<"n","o","n","e">>, sNone>>,
      <<<<"r","a","w">>, <<"R","A","W">>>>,
      <<<<"t","i","f","f","_","l","z","w">>, <<"T","I","F","F"," ","L","Z","W">>>> }

\* img.info.get('compression', 'None'); an entry is absent or holds a value
InfoCompression(img) == IF img.comp.present THEN img.comp.val ELSE PyStr(sNone)

\* lines 153-158
OtherCompression(img) ==
    LET compression == InfoCompression(img) IN
    IF compression # PyStr(sNone)
    THEN PyStr(Capitalize(Str(compression)))
    ELSE PyStr(sUnknown)

\* lines 140-146
TiffCompression(img) ==
    LET key == Lower(Str(InfoCompression(img))) IN
    IF \E e \in compression_map : e[1] = key
    THEN PyStr((CHOOSE e \in compression_map : e[1] = key)[2])
    ELSE PyStr(Capitalize(Str(InfoCompression(img))))

get_compression(img, file_path, actual_file_size) ==
    CASE img.format = PyStr(sJPEG) -> calculate_jpeg_compression_ratio(img, actual_file_size)
      [] img.format = PyStr(sPNG)  -> Ret(PyStr(sZeroPct))
      [] img.format = PyStr(sBMP)  -> Ret(PyStr(sZeroPct))
      [] img.format = PyStr(sTIFF) -> Ret(TiffCompression(img))
      [] img.format = PyStr(sGIF)  -> Ret(PyStr(sLZW))
      [] OTHER                     -> Ret(OtherCompression(img))

----------------------------------------------------------------------------
(* ImageInfoExtractor.get_image_info *)

\* round-half-even of num/den: actual_file_size / 1024 / 1024 is exact in a
\* double (division by a power of two), and the format rounds the exact value
RoundHalfEven(num, den) ==
    LET q == num \div den
        r == num % den
    IN  IF 2 * r > den THEN q + 1
        ELSE IF 2 * r < den THEN q
        ELSE IF q % 2 = 0 THEN q ELSE q + 1

\* f"{x:.2f}" for x = hundredths / 100 >= 0
Format2f(hundredths) ==
    NatDigits(hundredths \div 100) \o <<".">>
      \o <<DigitChars[((hundredths \div 10) % 10) + 1], DigitChars[(hundredths % 10) + 1]>>

\* FileSizeMb with one division by 1024 forgotten
FileSizeKb(actual_file_size) == PyStr(Format2f(RoundHalfEven(actual_file_size * 100, 1024)))

\* f"{actual_file_size / 1024 / 1024:.2f}"
FileSizeMb(actual_file_size) == PyStr(Format2f(RoundHalfEven(actual_file_size * 100, 1048576)))

\* FailureRecord with one field left at a default instead of the sentinel
FailureRecordPartial(file_path, msg) ==
    [ filename     |-> Basename(file_path),
      filepath     |-> file_path,
      error        |-> PyStr(msg),
      format       |-> PyStr(sError),
      size_str     |-> PyStr(sError),
      dpi          |-> PyStr(s72x72),
      color_depth  |-> PyStr(sError),
      compression  |-> PyStr(sError),
      file_size_mb |-> PyStr(sError) ]

\* the dict of lines 74-84
FailureRecord(file_path, msg) ==
    [ filename     |-> Basename(file_path),
      filepath     |-> file_path,
      error        |-> PyStr(msg),
      format       |-> PyStr(sError),
      size_str     |-> PyStr(sError),
      dpi          |-> PyStr(sError),
      color_depth  |-> PyStr(sError),
      compression  |-> PyStr(sError),
      file_size_mb |-> PyStr(sError) ]

\* the dict of lines 58-71
SuccessRecord(file_path, img, actual_file_size, compression) ==
    [ filename     |-> Basename(file_path),
      filepath     |-> file_path,
      format       |-> IF Truthy(img.format) THEN img.format ELSE PyStr(sUnknown),
      width        |-> img.width,
      height       |-> img.height,
      size_str     |-> PyStr(IntStr(img.width) \o Times \o IntStr(img.height)),
      mode         |-> PyStr(img.mode),
      color_depth  |-> get_color_depth(img),
      dpi          |-> get_dpi(img),
      compression  |-> compression,
      file_size_mb |-> FileSizeMb(actual_file_size),
      error        |-> PyNone ]

\* d is what the decoder and the filesystem do for file_path: d.fault names the
\* step inside the try block that raises (Image.open, os.stat, ...) or "none"
InfoOf(file_path, d) ==
    LET compression == get_compression(d.img, file_path, d.size) IN
    IF d.fault.at # "none" THEN FailureRecord(file_path, d.fault.msg)
    ELSE IF compression.raised THEN FailureRecord(file_path, compression.msg)
    ELSE SuccessRecord(file_path, d.img, d.size, compression.val)

get_image_info(file_path) == InfoOf(file_path, disk[file_path])

----------------------------------------------------------------------------
(* display_results and show_welcome, as far as they depend on the records *)

\* the status texts of line 278; the Russian word for "error" is transliterated
sStatusError == <<"O","s","h","i","b","k","a">>
sStatusOK    == <<"O","K">>

RowOf(file_info) ==
    [ file         |-> file_info.filename,
      size_px      |-> file_info.size_str,
      dpi          |-> file_info.dpi,
      color_depth  |-> file_info.color_depth,
      compression  |-> file_info.compression,
      format       |-> file_info.format,
      file_size_mb |-> file_info.file_size_mb,
      status       |-> IF Truthy(file_info.error) THEN sStatusError ELSE sStatusOK ]

\* lines 248-279, the search box left empty
display_results(data, alert) ==
    LET total_files == Len(data)
        successful  == Cardinality({i \in 1..Len(data) : ~Truthy(data[i].error)})
    IN  [ screen      |-> "results",
          alert       |-> alert,
          total       |-> total_files,
          successful  |-> successful,
          error_count |-> total_files - successful,
          rows        |-> [i \in 1..Len(data) |-> RowOf(data[i])] ]

show_welcome(alert) ==
    [ screen |-> "welcome", alert |-> alert, total |-> 0, successful |-> 0,
      error_count |-> 0, rows |-> <<>> ]

\* lines 214-217
Render(files, alert) ==
    IF files # <<>> THEN display_results(files, alert) ELSE show_welcome(alert)

----------------------------------------------------------------------------
(* The files and folders the session is tried on *)

NoDpi         == [present |-> FALSE, tuple |-> FALSE, items |-> <<>>]
DpiTuple(q)   == [present |-> TRUE,  tuple |-> TRUE,  items |-> q]
DpiOther(q)   == [present |-> TRUE,  tuple |-> FALSE, items |-> q]
NoTag         == [present |-> FALSE, val |-> PyNone]
Tag(v)        == [present |-> TRUE,  val |-> v]
BmpOf(size)   == [raises |-> FALSE, msg |-> <<>>, size |-> size]
BmpFails(msg) == [raises |-> TRUE,  msg |-> msg,  size |-> 0]
NoFault       == [at |-> "none", msg |-> <<>>]
FaultAt(step, msg) == [at |-> step, msg |-> msg]

Image(format, width, height, mode, dpi, comp, bmp) ==
    [ format |-> format, width |-> width, height |-> height, mode |-> mode,
      dpi |-> dpi, comp |-> comp, bmp |-> bmp, tie_up |-> FALSE ]

PngImage  == Image(PyStr(sPNG), 100, 50, sRGB, NoDpi, NoTag, BmpOf(15054))
JpegImage == Image(PyStr(sJPEG), 100, 50, sRGB, DpiTuple(<<PyInt(300), PyInt(300)>>),
                   NoTag, BmpOf(15054))
\* Pillow's BMP writer refuses mode CMYK, which convert('RGB') is not applied to
CmykImage == Image(PyStr(sJPEG), 100, 50, sCMYK, NoDpi, NoTag,
                   BmpFails(<<"cannot write mode CMYK as BMP">>))
\* a container the decoder opens without reporting a format
BareImage == Image(PyNone, 8, 8, <<"L","A">>, NoDpi, NoTag, BmpOf(310))

FileKinds ==
    { [fault |-> NoFault, size |-> 131072, img |-> PngImage],
      [fault |-> NoFault, size |-> 5000,   img |-> JpegImage],
      [fault |-> NoFault, size |-> 7000,   img |-> CmykImage],
      [fault |-> NoFault, size |-> 400,    img |-> BareImage],
      [fault |-> FaultAt("open", <<"cannot identify image file">>), size |-> 12, img |-> PngImage],
      [fault |-> FaultAt("open", <<>>), size |-> 12, img |-> PngImage],
      [fault |-> FaultAt("stat", <<"[Errno 2] No such file or directory">>), size |-> 0,
       img |-> PngImage],
      [fault |-> FaultAt("depth", <<"depth lookup failed">>), size |-> 5000, img |-> JpegImage],
      [fault |-> FaultAt("dpi", <<"dpi lookup failed">>), size |-> 5000, img |-> JpegImage],
      [fault |-> FaultAt("compression", <<"compression lookup failed">>), size |-> 5000,
       img |-> JpegImage] }

\* what os.walk yields for each folder that exists; sub is the subdirectory of pics
FolderWalk ==
    [ pics |-> << [root |-> 1, files |-> <<nA, nC, nB>>], [root |-> 2, files |-> <<nE>>] >>,
      docs |-> << [root |-> 3, files |-> <<nC, nF>>] >>,
      sub  |-> << [root |-> 2, files |-> <<nE>>] >> ]

\* what the user may type into the text input before pressing the button
FolderInputs == {"", "missing", "pics", "docs", "sub"}

\* os.path.exists
Exists(folder) == folder \in DOMAIN FolderWalk

ImagePaths ==
    UNION { UNION { { JoinPath(FolderWalk[f][k].root, FolderWalk[f][k].files[j]) :
                        j \in { x \in 1..Len(FolderWalk[f][k].files) :
                                  IsImageName(FolderWalk[f][k].files[x]) } } :
                    k \in 1..Len(FolderWalk[f]) } :
            f \in DOMAIN FolderWalk }

----------------------------------------------------------------------------
(* main and scan_and_process_folder *)

\* values of the variables a specification does not use
IdleDpi  == NoDpi
IdleJpeg == [U |-> 0, A |-> 125, raises |-> FALSE, tie_up |-> FALSE]
IdleComp == [format |-> PyNone, comp |-> NoTag]
Pending  == [raised |-> FALSE, msg |-> <<>>, val |-> PyNone]

OthersIdle ==
    /\ tree = <<>> /\ scan_out = NotRun
    /\ dpi_in = IdleDpi /\ dpi_out = Pending
    /\ jpeg_in = IdleJpeg /\ jpeg_out = Pending
    /\ comp_in = IdleComp /\ comp_out = Pending

\* lines 177-184 and the first rendering
Init ==
    /\ disk \in [ImagePaths -> FileKinds]
    /\ folder_path = ""
    /\ processed_files = <<>>
    /\ image_files = <<>>
    /\ processed_data = <<>>
    /\ pc = "idle"
    /\ view = show_welcome("none")
    /\ OthersIdle

\* The button of line 195 pressed with `folder` in the text input: lines 196-200,
\* then lines 221-233 of scan_and_process_folder.  When the scan finds nothing the
\* function returns and main goes on to render (lines 214-217).
PressScan(folder) ==
    /\ pc = "idle"
    /\ IF folder # "" /\ Exists(folder)
       THEN /\ folder_path' = folder
            /\ LET found == scan_folder(FolderWalk[folder]) IN
               IF found = <<>>
               THEN /\ view' = Render(processed_files, "no_images")
                    /\ UNCHANGED <<image_files, processed_data, pc>>
               ELSE /\ image_files' = found
                    /\ processed_data' = <<>>
                    /\ pc' = "loop"
                    /\ UNCHANGED view
       ELSE /\ view' = Render(processed_files, "no_folder")
            /\ UNCHANGED <<folder_path, image_files, processed_data, pc>>
    /\ UNCHANGED <<disk, processed_files>>
    /\ UNCHANGED <<scanVars, dpiVars, jpegVars, compVars>>

\* ProcessNext with a failed file ending the batch
ProcessNextAbort ==
    /\ pc = "loop"
    /\ Len(processed_data) < Len(image_files)
    /\ LET file_path == image_files[Len(processed_data) + 1]
           info == get_image_info(file_path)
       IN  IF info.error # PyNone
           THEN /\ pc' = "idle"
                /\ image_files' = <<>>
                /\ processed_data' = <<>>
           ELSE /\ processed_data' = Append(processed_data, info)
                /\ UNCHANGED <<image_files, pc>>
    /\ UNCHANGED <<disk, folder_path, processed_files, view>>
    /\ UNCHANGED <<scanVars, dpiVars, jpegVars, compVars>>

\* one iteration of the for loop, lines 235-240
ProcessNext ==
    /\ pc = "loop"
    /\ Len(processed_data) < Len(image_files)
    /\ LET file_path == image_files[Len(processed_data) + 1]
           info == get_image_info(file_path)
       IN  processed_data' = Append(processed_data, info)
    /\ UNCHANGED <<disk, folder_path, processed_files, image_files, pc, view>>
    /\ UNCHANGED <<scanVars, dpiVars, jpegVars, compVars>>

\* the loop is exhausted: lines 242-245, then main renders (lines 214-217)
FinishScan ==
    /\ pc = "loop"
    /\ Len(processed_data) = Len(image_files)
    /\ processed_files' = processed_data
    /\ view' = Render(processed_data, "none")
    /\ pc' = "idle"
    /\ image_files' = <<>>
    /\ processed_data' = <<>>
    /\ UNCHANGED <<disk, folder_path>>
    /\ UNCHANGED <<scanVars, dpiVars, jpegVars, compVars>>

Next ==
    \/ \E folder \in FolderInputs : PressScan(folder)
    \/ ProcessNext
    \/ FinishScan

Spec == Init /\ [][Next]_vars

----------------------------------------------------------------------------
(* Properties of the session: Spec *)

StartsWith(str, prefix) ==
    /\ Len(prefix) <= Len(str)
    /\ SubSeq(str, 1, Len(prefix)) = prefix

\* every record the loop has produced or the session holds
Records ==
    {processed_data[i] : i \in 1..Len(processed_data)}
      \cup {processed_files[i] : i \in 1..Len(processed_files)}

Sentinel == PyStr(sError)

FullyFailed(r) ==
    /\ r.error.t = "str"
    /\ r.format = Sentinel /\ r.size_str = Sentinel /\ r.dpi = Sentinel
    /\ r.color_depth = Sentinel /\ r.compression = Sentinel /\ r.file_size_mb = Sentinel

ErrorDescribed(v) == v.t = "str" /\ StartsWith(v.s, sErrorColon)

\* the fields other than compression hold what the image and the filesystem say
ImageFieldsValid(r) ==
    LET d == disk[r.filepath] IN
    /\ r.error = PyNone
    /\ r.format \in {d.img.format, PyStr(sUnknown)} /\ r.format # Sentinel
    /\ r.width = d.img.width /\ r.height = d.img.height
    /\ r.size_str = PyStr(IntStr(d.img.width) \o Times \o IntStr(d.img.height))
    /\ r.color_depth # Sentinel /\ r.color_depth.t \in {"int", "str"}
    /\ r.dpi.t = "str" /\ r.dpi # Sentinel
    /\ r.file_size_mb.t = "str" /\ r.file_size_mb # Sentinel

FullySuccessful(r) ==
    /\ ImageFieldsValid(r)
    /\ r.compression.t = "str" /\ r.compression # Sentinel /\ ~ErrorDescribed(r.compression)

\* C1: while the loop runs, the records produced so far are the records of the
\* first paths, in order, each depending on its own path only, and the loop can
\* always take its next step; every iteration adds exactly one record; the loop
\* is left only with one record per path, which is what the session then holds.
C1Inv ==
    pc = "loop" =>
        /\ Len(image_files) >= 1
        /\ Len(processed_data) <= Len(image_files)
        /\ \A i \in 1..Len(processed_data) :
              /\ processed_data[i].filepath = image_files[i]
              /\ processed_data[i] = InfoOf(image_files[i], disk[image_files[i]])
        /\ ENABLED (ProcessNext \/ FinishScan)

C1Step ==
    /\ (pc = "loop" /\ pc' = "loop") =>
          /\ image_files' = image_files
          /\ Len(processed_data') = Len(processed_data) + 1
          /\ SubSeq(processed_data', 1, Len(processed_data)) = processed_data
    /\ (pc = "loop" /\ pc' # "loop") =>
          /\ Len(processed_data) = Len(image_files)
          /\ processed_files' = processed_data

C1Theorem == [](C1Inv) /\ [][C1Step]_vars

\* a batch of three whose first file failed and whose later files were processed
C1Witness ==
    /\ pc = "loop"
    /\ Len(image_files) = 3 /\ Len(processed_data) = 3
    /\ processed_data[1].error # PyNone
    /\ processed_data[2].error = PyNone
    /\ processed_data[3].error # PyNone

\* C2 as stated: every record is fully successful (compression included) or
\* fully failed.
C2Original == \A r \in Records : FullySuccessful(r) \/ FullyFailed(r)

\* C2 amended: every record is fully failed (exactly when a step raised) or has
\* no error and valid format, size, depth, DPI and file size, its compression
\* being the text computed for the format, which is an "Error: ..." text only
\* (and always) for a JPEG whose conversion or re-encoding raised.
C2Theorem ==
    \A r \in Records :
        LET d == disk[r.filepath] IN
        /\ FullyFailed(r) <=> d.fault.at # "none"
        /\ ~FullyFailed(r) =>
              /\ ImageFieldsValid(r)
              /\ r.compression.t = "str"
              /\ ErrorDescribed(r.compression) <=>
                    (d.img.format = PyStr(sJPEG) /\ d.img.bmp.raises)

C2Witness ==
    /\ Len(processed_files) = 3
    /\ FullyFailed(processed_files[1]) /\ disk[processed_files[1].filepath].fault.at = "stat"
    /\ processed_files[2].error = PyNone /\ ErrorDescribed(processed_files[2].compression)
    /\ FullySuccessful(processed_files[3])

\* the records of a scan of `folder`
RecordsOfScan(folder) ==
    LET found == scan_folder(FolderWalk[folder]) IN
    [i \in 1..Len(found) |-> InfoOf(found[i], disk[found[i]])]

\* C3 as stated: between runs, the stored collection is exactly the records of
\* the most recent scan, a scan that found no image files included.
C3Claim ==
    pc = "idle" =>
        processed_files = IF folder_path = "" THEN <<>> ELSE RecordsOfScan(folder_path)

\* C4 as stated: every record built by the failure branch is counted under
\* errors and shown with the error status, and the two counters add up.
C4Claim ==
    view.screen = "results" =>
        /\ view.total = Len(processed_files)
        /\ view.successful + view.error_count = view.total
        /\ \A i \in 1..Len(processed_files) :
              disk[processed_files[i].filepath].fault.at # "none"
                 => view.rows[i].status = sStatusError
        /\ view.error_count =
              Cardinality({i \in 1..Len(processed_files) :
                              disk[processed_files[i].filepath].fault.at # "none"})

\* C5: a file that opens as JPEG and whose conversion or re-encoding raises
\* gets a record without error, with its format, dimensions, depth, DPI and
\* file size, and "Error: <text>" as compression; the loop goes on after it.
C5Theorem ==
    /\ \A r \in Records :
          LET d == disk[r.filepath] IN
          (d.fault.at = "none" /\ d.img.format = PyStr(sJPEG) /\ d.img.bmp.raises) =>
              /\ ImageFieldsValid(r)
              /\ r.format = PyStr(sJPEG)
              /\ r.compression = PyStr(sErrorColon \o d.img.bmp.msg)
    /\ pc = "loop" =>
          /\ \A i \in 1..Len(processed_data) : processed_data[i].filepath = image_files[i]
          /\ ENABLED (ProcessNext \/ FinishScan)

C5Witness ==
    /\ Len(processed_files) = 3
    /\ disk[processed_files[1].filepath].img.bmp.raises
    /\ disk[processed_files[1].filepath].fault.at = "none"
    /\ ErrorDescribed(processed_files[1].compression)
    /\ processed_files[1].error = PyNone
    /\ FullySuccessful(processed_files[2])

\* C9 as stated: whenever the file exists, the record reports the size taken from
\* the filesystem, also when opening or decoding fails.
C9Original ==
    \A r \in Records :
        LET d == disk[r.filepath] IN
        d.fault.at # "stat" => r.file_size_mb = FileSizeMb(d.size)

\* C9 amended: a record without error reports the on-disk byte size in MB to
\* two decimals (the nearest hundredth); a record of a file on which any step
\* raised, opening included, reports the sentinel instead.
C9Theorem ==
    \A r \in Records :
        LET d == disk[r.filepath] IN
        /\ d.fault.at = "none" =>
              \E h \in 0..(d.size \div 10000 + 1) :
                  /\ r.file_size_mb = PyStr(Format2f(h))
                  /\ 2 * Abs(h * 1048576 - d.size * 100) <= 1048576
        /\ d.fault.at # "none" => r.file_size_mb = Sentinel

C9Witness ==
    /\ Len(processed_files) = 3
    /\ disk[processed_files[1].filepath].fault.at = "open"
    /\ processed_files[1].file_size_mb = Sentinel
    /\ processed_files[2].file_size_mb = PyStr(<<"0", ".", "1", "2">>)

----------------------------------------------------------------------------
(* scan_folder on arbitrary directory trees: SpecScan *)

PipeIdle ==
    /\ disk = [p \in ImagePaths |-> [fault |-> NoFault, size |-> 131072, img |-> PngImage]]
    /\ folder_path = ""
    /\ processed_files = <<>>
    /\ image_files = <<>>
    /\ processed_data = <<>>
    /\ pc = "idle"
    /\ view = show_welcome("none")

InitScan ==
    /\ PipeIdle
    /\ tree \in Walks /\ scan_out = NotRun
    /\ dpi_in = IdleDpi /\ dpi_out = Pending
    /\ jpeg_in = IdleJpeg /\ jpeg_out = Pending
    /\ comp_in = IdleComp /\ comp_out = Pending

RunScan ==
    /\ scan_out = NotRun
    /\ scan_out' = ScanWalk(tree)
    /\ UNCHANGED <<tree, pipeVars, dpiVars, jpegVars, compVars>>

SpecScan == InitScan /\ [][RunScan]_vars

\* every file of the first k directories, in traversal order
RECURSIVE FilesOfFirst(_, _)
FilesOfFirst(walk, k) ==
    IF k = 0 THEN <<>>
    ELSE FilesOfFirst(walk, k - 1)
           \o [j \in 1..Len(walk[k].files) |-> JoinPath(walk[k].root, walk[k].files[j])]

\* the name ends in one of the recognised extensions, whatever the case of its letters
HasImageSuffix(name) ==
    \E e \in supported_formats :
        /\ Len(name) >= Len(e)
        /\ Lower(SubSeq(name, Len(name) - Len(e) + 1, Len(name))) = e

MatchingOfFirst(walk, k) == SelectSeq(FilesOfFirst(walk, k), LAMBDA p : IsImageName(p.file))

\* C7: scan_folder returns at most the cap, only names with a recognised
\* extension (case-insensitively), namely the first min(cap, total) matching
\* files in traversal order, and visits no directory after the one in which the
\* cap was reached.
C7Theorem ==
    scan_out # NotRun =>
        LET all == MatchingOfFirst(tree, Len(tree)) IN
        /\ Len(scan_out.files) <= ScanCap
        /\ \A i \in 1..Len(scan_out.files) : HasImageSuffix(scan_out.files[i].file)
        /\ scan_out.files = SubSeq(all, 1, Min(ScanCap, Len(all)))
        /\ scan_out.visited \in 0..Len(tree)
        /\ \A k \in 1..(scan_out.visited - 1) : Len(MatchingOfFirst(tree, k)) < ScanCap
        /\ scan_out.visited < Len(tree) =>
              Len(MatchingOfFirst(tree, scan_out.visited)) >= ScanCap

\* the cap is exceeded inside a directory that is not the last one
C7Witness ==
    /\ scan_out # NotRun
    /\ scan_out.visited >= 2
    /\ scan_out.visited < Len(tree)
    /\ Len(MatchingOfFirst(tree, scan_out.visited)) > ScanCap
    /\ Len(scan_out.files) = ScanCap
    /\ \E j \in 1..Len(tree[Len(tree)].files) : IsImageName(tree[Len(tree)].files[j])

----------------------------------------------------------------------------
(* get_dpi on arbitrary metadata entries: SpecDpi *)

DpiComponents ==
    { PyInt(-300), PyInt(0), PyInt(72), PyInt(300), PyNone, PyStr(<<"a","b","c">>) }

DpiInputs ==
    {NoDpi}
      \cup {DpiTuple(q) : q \in SeqsUpTo(DpiComponents, MaxArity)}
      \cup {DpiOther(q) : q \in SeqsUpTo(DpiComponents, 2)}

InitDpi ==
    /\ PipeIdle
    /\ tree = <<>> /\ scan_out = NotRun
    /\ dpi_in \in DpiInputs /\ dpi_out = Pending
    /\ jpeg_in = IdleJpeg /\ jpeg_out = Pending
    /\ comp_in = IdleComp /\ comp_out = Pending

RunDpi ==
    /\ dpi_out = Pending
    /\ dpi_out' = Ret(get_dpi([dpi |-> dpi_in]))
    /\ UNCHANGED <<dpi_in, pipeVars, scanVars, jpegVars, compVars>>

SpecDpi == InitDpi /\ [][RunDpi]_vars

WellFormedDpi(e) ==
    /\ e.present /\ e.tuple /\ Len(e.items) = 2
    /\ \A i \in 1..2 : e.items[i].t = "int" /\ e.items[i].n > 0

\* C6 as stated: "X × Y" with the stored values for a well-formed pair of
\* positive numbers, "72 × 72" for every other entry.
C6Claim ==
    dpi_out # Pending =>
        dpi_out.val =
            IF WellFormedDpi(dpi_in)
            THEN PyStr(IntStr(dpi_in.items[1].n) \o Times \o IntStr(dpi_in.items[2].n))
            ELSE PyStr(s72x72)

----------------------------------------------------------------------------
(* calculate_jpeg_compression_ratio on arbitrary sizes: SpecJpeg *)

\* sizes of the BMP written to the buffer: 0 (the guarded case), from the
\* smallest BMP (a 58-byte 1 x 1 image) on, and around 2000 bytes
BmpSizes == {0} \cup {58 + k : k \in 0..MaxSize} \cup {2000 + k : k \in 0..MaxSize}

\* sizes of the JPEG file on disk: from a minimal JPEG of 125 bytes on, and
\* around 2000 bytes
JpegFileSizes == {125 + k : k \in 0..MaxSize} \cup {2000 + k : k \in 0..MaxSize}

JpegInputs ==
    [U : BmpSizes, A : JpegFileSizes, raises : BOOLEAN, tie_up : BOOLEAN]

JpegImageOf(in) ==
    [ format |-> PyStr(sJPEG), width |-> 1, height |-> 1, mode |-> sRGB, dpi |-> NoDpi,
      comp |-> NoTag,
      bmp |-> IF in.raises THEN BmpFails(<<"encoder error">>) ELSE BmpOf(in.U),
      tie_up |-> in.tie_up ]

InitJpeg ==
    /\ PipeIdle
    /\ tree = <<>> /\ scan_out = NotRun
    /\ dpi_in = IdleDpi /\ dpi_out = Pending
    /\ jpeg_in \in JpegInputs /\ jpeg_out = Pending
    /\ comp_in = IdleComp /\ comp_out = Pending

RunJpeg ==
    /\ jpeg_out = Pending
    /\ jpeg_out' = calculate_jpeg_compression_ratio(JpegImageOf(jpeg_in), jpeg_in.A)
    /\ UNCHANGED <<jpeg_in, pipeVars, scanVars, dpiVars, compVars>>

SpecJpeg == InitJpeg /\ [][RunJpeg]_vars

\* the returned text is the percentage saved, in tenths t, to the nearest tenth
IsPercentage(out, U, A, t) ==
    /\ out = PyStr(Format1f(A > U, t) \o <<"%">>)
    /\ 2 * Abs(t * U - 1000 * Abs(U - A)) <= U

\* C8 as stated: "N/A" for U = 0, otherwise (U - A) / U * 100 to one decimal
\* followed by '%', which for A < U lies strictly between 0 and 100.
C8Original ==
    (jpeg_out # Pending /\ ~jpeg_in.raises) =>
        LET U == jpeg_in.U
            A == jpeg_in.A
        IN  /\ ~jpeg_out.raised
            /\ U = 0 => jpeg_out.val = PyStr(sNA)
            /\ U > 0 =>
                 LET q == (1000 * Abs(U - A)) \div U IN
                 \E t \in {q, q + 1} :
                     /\ IsPercentage(jpeg_out.val, U, A, t)
                     /\ A < U => (0 < t /\ t < 1000)

\* C8 amended: as stated, except that for A < U the returned percentage lies
\* between 0.0 and 100.0 inclusive: a saving below 0.05 % is returned as
\* "0.0%" and one of at least 99.95 % as "100.0%".
C8Theorem ==
    (jpeg_out # Pending /\ ~jpeg_in.raises) =>
        LET U == jpeg_in.U
            A == jpeg_in.A
        IN  /\ ~jpeg_out.raised
            /\ U = 0 => jpeg_out.val = PyStr(sNA)
            /\ U > 0 =>
                 LET q == (1000 * Abs(U - A)) \div U IN
                 \E t \in {q, q + 1} :
                     /\ IsPercentage(jpeg_out.val, U, A, t)
                     /\ A < U => (0 <= t /\ t <= 1000)

C8Witness ==
    /\ jpeg_out # Pending /\ ~jpeg_in.raises
    /\ jpeg_in.U = 2001 /\ jpeg_in.A = 2000
    /\ jpeg_out.val = PyStr(<<"0", ".", "0", "%">>)

----------------------------------------------------------------------------
(* get_compression on arbitrary formats and tags: SpecComp *)

NamedFormats == {PyStr(sJPEG), PyStr(sPNG), PyStr(sBMP), PyStr(sTIFF), PyStr(sGIF)}

OtherFormats == {PyNone, PyStr(sPCX), PyStr(<<"W","E","B","P">>), PyStr(<<"j","p","e","g">>)}

TagValues ==
    { PyStr(sNone), PyStr(<<"n","o","n","e">>), PyStr(<<"r","l","e">>), PyStr(<<"R","L","E">>),
      PyStr(<<"l","Z","W">>), PyStr(<<"t","i","f","f","_","l","z","w">>), PyStr(<<>>),
      PyNone, PyInt(1) }

CompInputs == [format : NamedFormats \cup OtherFormats, comp : {NoTag} \cup {Tag(v) : v \in TagValues}]

CompImageOf(in) ==
    [ format |-> in.format, width |-> 1, height |-> 1, mode |-> sRGB, dpi |-> NoDpi,
      comp |-> in.comp, bmp |-> BmpOf(58), tie_up |-> FALSE ]

InitComp ==
    /\ PipeIdle
    /\ tree = <<>> /\ scan_out = NotRun
    /\ dpi_in = IdleDpi /\ dpi_out = Pending
    /\ jpeg_in = IdleJpeg /\ jpeg_out = Pending
    /\ comp_in \in CompInputs /\ comp_out = Pending

RunComp ==
    /\ comp_out = Pending
    /\ comp_out' = get_compression(CompImageOf(comp_in), JoinPath(1, nA), 100)
    /\ UNCHANGED <<comp_in, pipeVars, scanVars, dpiVars, jpegVars>>

SpecComp == InitComp /\ [][RunComp]_vars

\* C10 as stated: for a format other than JPEG, PNG, BMP, TIFF and GIF the
\* capitalized tag is returned whenever the entry is present, the text 'None'
\* included, and "Unknown" exactly when the entry is absent.
C10Claim ==
    (comp_out # Pending /\ comp_in.format \notin NamedFormats) =>
        /\ comp_in.comp.present => comp_out.val = PyStr(Capitalize(Str(comp_in.comp.val)))
        /\ comp_out.val = PyStr(sUnknown) <=> ~comp_in.comp.present

====
